---- MODULE Spec2Model ----
(***************************************************************************)
(* Model of the capture pipeline of fft-analyzer (src/src/main.rs).        *)
(*                                                                         *)
(* Two threads of control are modelled: the control (UI) thread, which     *)
(* runs AppState::update once per frame and from it start_stream and       *)
(* stop_stream, and the audio callback of every live cpal stream, which    *)
(* appends to the shared Vec<f32> behind the RwLock.                       *)
(*                                                                         *)
(* Spec     is the program: update() driven by the UI, plus the callbacks. *)
(* SpecApi  calls the methods start_stream / stop_stream and the snapshot  *)
(*          read directly, in any order, as a caller of AppState could.    *)
(*                                                                         *)
(* f32 amplitudes are represented exactly as integers counting units of    *)
(* 2^-15, so 1.0 is F32One and the i16/u16 values are whole multiples.     *)
(***************************************************************************)
EXTENDS Integers, Sequences, FiniteSets, TLC

VARIABLES
    devices,          \* number of entries of AppState.devices
    selected_device,  \* AppState.selected_device (0-based index)
    audio_data,       \* contents of AppState.audio_data (the Vec<f32>)
    stream,           \* AppState._stream: {} is None, {s} is Some(s)
    is_playing,       \* AppState.is_playing
    new_stream,       \* the local `stream` of start_stream, between build and assignment
    ui_pc,            \* position of the control thread
    points,           \* the collected snapshot while the read guard is held: {} or {seq}
    lock,             \* the RwLock: [writer |-> {} or {stream id}, readers |-> 0..1]
    cb,               \* per stream id, the data callback: [pc, data, k]
    panic,            \* "none", or the place where the process panicked
    delivered,        \* history: every sample pushed so far, in push order
    opened,           \* history: number of streams built so far; the next one's id
    stderr,           \* the last line err_fn printed on standard error, "" if none
    handed            \* history: the channel-0 sample of every frame the host handed
                      \* to a callback, in the order of delivery

vars == <<devices, selected_device, audio_data, stream, is_playing, new_stream,
          ui_pc, points, lock, cb, panic, delivered, opened, stderr, handed>>

----------------------------------------------------------------------------
(* Bounds of the model *)

\* Stands for the literal 2048 of main.rs:73-74, scaled down so that the
\* buffer fills and evicts within the explored runs.
Capacity == 2

MaxDelivered == 3    \* at most this many samples pushed in one run
MaxStreams == 2      \* at most this many streams built in one run

DeviceCounts == 0..2                        \* host.input_devices() yields this many devices
BlockLens == 0..2                           \* interleaved samples in one callback block
Channels == {1, 2}                          \* config.channels of a device
Formats == {"F32", "I16", "U16", "I32"}     \* config.sample_format(); I32 is not dispatched
StreamIds == 1..MaxStreams                  \* streams are numbered in the order they are built

F32One == 2^15       \* the f32 value 1.0 in model units

----------------------------------------------------------------------------
(* Pure helpers *)

Min(a, b) == IF a < b THEN a ELSE b

Max(a, b) == IF a > b THEN a ELSE b

\* Samples a device may deliver, in its native encoding: full scale negative
\* for f32, and small integers for i16 and u16.
RawSamples(format) ==
    CASE format = "F32" -> {-F32One}
      [] format = "I16" -> {-1, 2}
      [] format = "U16" -> {2}
      [] OTHER -> {}

\* frame[0].into(): the std From<T> for f32 conversions are value preserving.
into_f32(format, raw) ==
    CASE format = "F32" -> raw
      [] OTHER -> raw * F32One

\* The blocks `data` a callback can be handed.
Blocks(format) ==
    UNION {[1..n -> RawSamples(format)] : n \in BlockLens}

\* Mutant of chunks: every sample is a frame of its own, whatever n is.
chunks_flat(data, n) == [i \in 1..Len(data) |-> <<data[i]>>]

\* Mutant of chunks: the frames come out last first.
chunks_rev(data, n) ==
    LET frames == (Len(data) + n - 1) \div n
    IN  [f \in 1..frames |->
            SubSeq(data, (frames - f) * n + 1, Min((frames - f + 1) * n, Len(data)))]

\* data.chunks(n): consecutive pieces of n elements, the last possibly shorter.
RECURSIVE chunks(_, _)
chunks(data, n) ==
    IF Len(data) = 0 THEN <<>>
    ELSE IF Len(data) <= n THEN <<data>>
    ELSE <<SubSeq(data, 1, n)>> \o chunks(SubSeq(data, n + 1, Len(data)), n)

\* Mutant of push: the sample is inserted at the front.
push_front(buffer, x) == <<x>> \o buffer

\* Vec::push
push(buffer, x) == Append(buffer, x)

\* Mutant of drain: the range is taken at the end of the buffer.
drain_back(buffer, n) == SubSeq(buffer, 1, Len(buffer) - n)

\* buffer.drain(0..n): removes the first n elements.
drain(buffer, n) == SubSeq(buffer, n + 1, Len(buffer))

\* Mutant of evict: the length test is off by one.
evict_late(buffer) ==
    IF Len(buffer) > Capacity + 1
    THEN LET drain_size == Len(buffer) - Capacity IN drain(buffer, drain_size)
    ELSE buffer

\* Mutant of evict: the drain range is one element too long.
evict_more(buffer) ==
    IF Len(buffer) > Capacity
    THEN LET drain_size == Len(buffer) - Capacity + 1 IN drain(buffer, drain_size)
    ELSE buffer

\* Lines 73-76: the eviction after a push.
evict(buffer) ==
    IF Len(buffer) > Capacity
    THEN LET drain_size == Len(buffer) - Capacity IN drain(buffer, drain_size)
    ELSE buffer

\* The configurations default_input_config() can report for a device.
Configs == [format : Formats, channels : Channels]

IdleCb == [pc |-> "idle", data |-> <<>>, k |-> 0]

Unlocked == [writer |-> {}, readers |-> 0]

\* The stream ids in use: the one owned by the session and the one being started.
LiveIds == {s.id : s \in stream \cup new_stream}

StreamOf(id) == CHOOSE s \in stream \cup new_stream : s.id = id

----------------------------------------------------------------------------
(* AppState::new, lines 15-25 *)

Init ==
    /\ devices \in DeviceCounts
    /\ selected_device = 0
    /\ audio_data = <<>>
    /\ stream = {}
    /\ is_playing = FALSE
    /\ new_stream = {}
    /\ ui_pc = "frame"
    /\ points = {}
    /\ lock = Unlocked
    /\ cb = [id \in StreamIds |-> IdleCb]
    /\ panic = "none"
    /\ delivered = <<>>
    /\ opened = 0
    /\ stderr = ""
    /\ handed = <<>>

----------------------------------------------------------------------------
(* The data callback of a live stream, lines 69-78 *)

\* The samples a running callback has still to push.
Pending(id) ==
    IF cb[id].pc = "idle" THEN 0
    ELSE Len(chunks(cb[id].data, StreamOf(id).channels)) - (cb[id].k - 1)
         - (IF cb[id].pc = "pushed" THEN 1 ELSE 0)

RECURSIVE PendingUpTo(_)
PendingUpTo(n) == IF n = 0 THEN 0 ELSE Pending(n) + PendingUpTo(n - 1)

\* What the host delivers with a block: for each of its frames, in block
\* order, the sample of channel 0 as an f32.
FirstChannel(id, data) ==
    LET c == StreamOf(id).channels
        frames == (Len(data) + c - 1) \div c
    IN  [f \in 1..frames |->
            into_f32(StreamOf(id).format, data[(f - 1) * c + 1])]

\* The host calls the closure with a block of interleaved samples.
CbInvoke(id) ==
    /\ panic = "none"
    /\ id \in LiveIds
    /\ cb[id].pc = "idle"
    /\ \E data \in Blocks(StreamOf(id).format) :
          /\ Len(delivered) + PendingUpTo(MaxStreams)
                + Len(chunks(data, StreamOf(id).channels)) <= MaxDelivered
          /\ cb' = [cb EXCEPT ![id] = [pc |-> "waiting", data |-> data, k |-> 1]]
          /\ handed' = handed \o FirstChannel(id, data)
    /\ UNCHANGED <<devices, selected_device, audio_data, stream, is_playing,
                   new_stream, ui_pc, points, lock, panic, delivered, opened, stderr>>

\* Line 70: audio_data.write() returns once no reader and no writer holds the lock.
CbLock(id) ==
    /\ panic = "none"
    /\ cb[id].pc = "waiting"
    /\ lock.writer = {} /\ lock.readers = 0
    /\ lock' = [lock EXCEPT !.writer = {id}]
    /\ cb' = [cb EXCEPT ![id].pc = "loop"]
    /\ UNCHANGED <<devices, selected_device, audio_data, stream, is_playing,
                   new_stream, ui_pc, points, panic, delivered, opened, stderr, handed>>

\* Line 72: push the first sample of the k-th frame.
CbPush(id) ==
    /\ panic = "none"
    /\ cb[id].pc = "loop"
    /\ LET frames == chunks(cb[id].data, StreamOf(id).channels) IN
          /\ cb[id].k <= Len(frames)
          /\ LET frame == frames[cb[id].k]
                 sample == into_f32(StreamOf(id).format, frame[1])
             IN /\ audio_data' = push(audio_data, sample)
                /\ delivered' = Append(delivered, sample)
    /\ cb' = [cb EXCEPT ![id].pc = "pushed"]
    /\ UNCHANGED <<devices, selected_device, stream, is_playing, new_stream,
                   ui_pc, points, lock, panic, opened, stderr, handed>>

\* Lines 73-76: drain the excess, then go on to the next frame.
CbEvict(id) ==
    /\ panic = "none"
    /\ cb[id].pc = "pushed"
    /\ audio_data' = evict(audio_data)
    /\ cb' = [cb EXCEPT ![id].pc = "loop", ![id].k = @ + 1]
    /\ UNCHANGED <<devices, selected_device, stream, is_playing, new_stream,
                   ui_pc, points, lock, panic, delivered, opened, stderr, handed>>

\* Line 78: the loop is over, the write guard is dropped and the closure returns.
CbReturn(id) ==
    /\ panic = "none"
    /\ cb[id].pc = "loop"
    /\ cb[id].k > Len(chunks(cb[id].data, StreamOf(id).channels))
    /\ lock' = [lock EXCEPT !.writer = {}]
    /\ cb' = [cb EXCEPT ![id] = IdleCb]
    /\ UNCHANGED <<devices, selected_device, audio_data, stream, is_playing,
                   new_stream, ui_pc, points, panic, delivered, opened, stderr, handed>>

\* The asynchronous faults a live stream can report (cpal::StreamError).
StreamErrors == {"DeviceNotAvailable"}

\* Mutant of CbError: the error callback panics instead of logging.
CbError_panic(id) ==
    /\ panic = "none"
    /\ id \in LiveIds
    /\ \E err \in StreamErrors : stderr' = err
    /\ panic' = "stream_error"
    /\ UNCHANGED <<devices, selected_device, audio_data, stream, is_playing,
                   new_stream, ui_pc, points, lock, cb, delivered, opened, handed>>

\* Line 35: err_fn, called by the host for a live stream, prints the error.
CbError(id) ==
    /\ panic = "none"
    /\ id \in LiveIds
    /\ \E err \in StreamErrors : stderr' = err
    /\ UNCHANGED <<devices, selected_device, audio_data, stream, is_playing,
                   new_stream, ui_pc, points, lock, cb, panic, delivered, opened, handed>>

Callback ==
    \E id \in StreamIds :
        \/ CbInvoke(id) \/ CbLock(id) \/ CbPush(id) \/ CbEvict(id) \/ CbReturn(id)
        \/ CbError(id)

----------------------------------------------------------------------------
(* AppState::start_stream, lines 27-47 *)

\* A panic of the control thread ends the process; the state it leaves is
\* kept as it was, and nothing runs afterwards.
Crash(place) ==
    /\ panic' = place
    /\ UNCHANGED <<devices, selected_device, audio_data, stream, is_playing,
                   new_stream, ui_pc, points, lock, cb, delivered, opened, stderr, handed>>

\* What the host can answer when the device is opened: default_input_config
\* fails, build_input_stream fails, play fails, or all succeed.
OpenOutcomes == {"config", "build", "play", "ok"}

\* Lines 28-44: resolve the device, query its configuration, dispatch on the
\* sample format, build the stream and play it.  Every failure is a panic.
StartOpen(from, to) ==
    /\ panic = "none"
    /\ ui_pc = from
    /\ opened < MaxStreams
    /\ IF selected_device >= devices
       THEN Crash("index_start")
       ELSE \E outcome \in OpenOutcomes :
              IF outcome = "config"
              THEN Crash("config")
              ELSE \E c \in Configs :
                     IF c.format \notin {"F32", "I16", "U16"}
                     THEN Crash("format")
                     ELSE IF outcome \in {"build", "play"}
                     THEN Crash(outcome)
                     ELSE /\ new_stream' = {[id |-> opened + 1,
                                             device |-> selected_device,
                                             format |-> c.format,
                                             channels |-> c.channels]}
                          /\ opened' = opened + 1
                          /\ ui_pc' = to
                          /\ UNCHANGED <<devices, selected_device, audio_data,
                                         stream, is_playing, points, lock, cb,
                                         panic, delivered, stderr, handed>>

\* Mutant of StartAssign: the stream is stored but the flag is left as it was.
StartAssign_noflag(from, to) ==
    /\ panic = "none"
    /\ ui_pc = from
    /\ \A s \in stream : cb[s.id].pc = "idle"
    /\ stream' = new_stream
    /\ new_stream' = {}
    /\ ui_pc' = to
    /\ UNCHANGED <<devices, selected_device, audio_data, is_playing, points, lock,
                   cb, panic, delivered, opened, stderr, handed>>

\* Lines 45-46: the assignment drops the stream held before, if any; dropping
\* a stream returns once its callback is not running.
StartAssign(from, to) ==
    /\ panic = "none"
    /\ ui_pc = from
    /\ \A s \in stream : cb[s.id].pc = "idle"
    /\ stream' = new_stream
    /\ new_stream' = {}
    /\ is_playing' = TRUE
    /\ ui_pc' = to
    /\ UNCHANGED <<devices, selected_device, audio_data, points, lock, cb,
                   panic, delivered, opened, stderr, handed>>

----------------------------------------------------------------------------
(* AppState::stop_stream, lines 49-54 *)

\* Mutant of StopTake: the stream is looked at but neither taken nor dropped.
StopTake_leak(from, to) ==
    /\ panic = "none"
    /\ ui_pc = from
    /\ ui_pc' = to
    /\ UNCHANGED <<devices, selected_device, audio_data, stream, is_playing,
                   new_stream, points, lock, cb, panic, delivered, opened, stderr, handed>>

\* Lines 50-52: take the stream out of the session and drop it; dropping a
\* stream returns once its callback is not running.
StopTake(from, to) ==
    /\ panic = "none"
    /\ ui_pc = from
    /\ \A s \in stream : cb[s.id].pc = "idle"
    /\ stream' = {}
    /\ ui_pc' = to
    /\ UNCHANGED <<devices, selected_device, audio_data, is_playing, new_stream,
                   points, lock, cb, panic, delivered, opened, stderr, handed>>

\* Mutant of StopFlag: the flag is toggled instead of cleared.
StopFlag_toggle(from, to) ==
    /\ panic = "none"
    /\ ui_pc = from
    /\ is_playing' = ~is_playing
    /\ ui_pc' = to
    /\ UNCHANGED <<devices, selected_device, audio_data, stream, new_stream,
                   points, lock, cb, panic, delivered, opened, stderr, handed>>

\* Line 53
StopFlag(from, to) ==
    /\ panic = "none"
    /\ ui_pc = from
    /\ is_playing' = FALSE
    /\ ui_pc' = to
    /\ UNCHANGED <<devices, selected_device, audio_data, stream, new_stream,
                   points, lock, cb, panic, delivered, opened, stderr, handed>>

----------------------------------------------------------------------------
(* The snapshot read of update, lines 119-135 *)

\* Mutant of ReadLock: the samples are read without waiting for the writer.
ReadLock_unguarded(from, to) ==
    /\ panic = "none"
    /\ ui_pc = from
    /\ lock' = [lock EXCEPT !.readers = @ + 1]
    /\ points' = {audio_data}
    /\ ui_pc' = to
    /\ UNCHANGED <<devices, selected_device, audio_data, stream, is_playing,
                   new_stream, cb, panic, delivered, opened, stderr, handed>>

\* Lines 120-125: audio_data.read() returns once no writer holds the lock;
\* the samples are then collected into `points`.
ReadLock(from, to) ==
    /\ panic = "none"
    /\ ui_pc = from
    /\ lock.writer = {}
    /\ lock' = [lock EXCEPT !.readers = @ + 1]
    /\ points' = {audio_data}
    /\ ui_pc' = to
    /\ UNCHANGED <<devices, selected_device, audio_data, stream, is_playing,
                   new_stream, cb, panic, delivered, opened, stderr, handed>>

\* Mutant of ReadUnlock: the points are dropped but the read guard is kept.
ReadUnlock_leak(from, to) ==
    /\ panic = "none"
    /\ ui_pc = from
    /\ points' = {}
    /\ ui_pc' = to
    /\ UNCHANGED <<devices, selected_device, audio_data, stream, is_playing,
                   new_stream, lock, cb, panic, delivered, opened, stderr, handed>>

\* Line 135: the closure ends, the read guard and the points are dropped.
ReadUnlock(from, to) ==
    /\ panic = "none"
    /\ ui_pc = from
    /\ lock' = [lock EXCEPT !.readers = @ - 1]
    /\ points' = {}
    /\ ui_pc' = to
    /\ UNCHANGED <<devices, selected_device, audio_data, stream, is_playing,
                   new_stream, cb, panic, delivered, opened, stderr, handed>>

----------------------------------------------------------------------------
(* AppState::update, lines 86-138 *)

\* Mutant of UpdateCombo: a change restarts the stream whether playing or not.
UpdateCombo_restart ==
    /\ panic = "none"
    /\ ui_pc = "frame"
    /\ IF selected_device >= devices
       THEN Crash("index_update")
       ELSE /\ \E i \in 0..(devices - 1) :
                  /\ selected_device' = i
                  /\ ui_pc' = IF i # selected_device THEN "switch" ELSE "buttons"
            /\ UNCHANGED <<devices, audio_data, stream, is_playing, new_stream,
                           points, lock, cb, panic, delivered, opened, stderr, handed>>

\* Lines 90-105: the combo box.  Line 91 indexes devices[selected_device];
\* the user may pick any listed device (line 95), and changed() reports
\* whether the pick differs from the previous selection; a change while
\* playing restarts the stream.
UpdateCombo ==
    /\ panic = "none"
    /\ ui_pc = "frame"
    /\ IF selected_device >= devices
       THEN Crash("index_update")
       ELSE /\ \E i \in 0..(devices - 1) :
                  /\ selected_device' = i
                  /\ ui_pc' = IF i # selected_device /\ is_playing
                              THEN "switch" ELSE "buttons"
            /\ UNCHANGED <<devices, audio_data, stream, is_playing, new_stream,
                           points, lock, cb, panic, delivered, opened, stderr, handed>>

\* Lines 102-103
SwitchStopTake == StopTake("switch", "switch_flag")
SwitchStopFlag == StopFlag("switch_flag", "switch_start")
SwitchStartOpen == StartOpen("switch_start", "switch_assign")
SwitchStartAssign == StartAssign("switch_assign", "buttons")

\* Lines 107-110: the Stop button is shown while playing.
ButtonStopTake == is_playing /\ StopTake("buttons", "button_flag")
ButtonStopFlag == StopFlag("button_flag", "plot")

\* Lines 111-115: the Start button is shown otherwise.
ButtonStartOpen == ~is_playing /\ StartOpen("buttons", "button_assign")
ButtonStartAssign == StartAssign("button_assign", "plot")

\* Neither button is clicked in this frame.
NoClick ==
    /\ panic = "none"
    /\ ui_pc = "buttons"
    /\ ui_pc' = "plot"
    /\ UNCHANGED <<devices, selected_device, audio_data, stream, is_playing,
                   new_stream, points, lock, cb, panic, delivered, opened, stderr, handed>>

PlotRead == ReadLock("plot", "reading")
PlotDone == ReadUnlock("reading", "frame")

Update ==
    \/ UpdateCombo
    \/ SwitchStopTake \/ SwitchStopFlag \/ SwitchStartOpen \/ SwitchStartAssign
    \/ ButtonStopTake \/ ButtonStopFlag
    \/ ButtonStartOpen \/ ButtonStartAssign
    \/ NoClick
    \/ PlotRead \/ PlotDone

Next == Update \/ Callback

Spec == Init /\ [][Next]_vars

\* Fair scheduling: if the lock is free again and again while callbacks ask
\* for the write lock, one of them gets it; the callback that holds it keeps
\* running; and the control thread gets the read lock and finishes its read
\* likewise.
Fairness ==
    /\ SF_vars(\E id \in StreamIds : CbLock(id))
    /\ WF_vars(\E id \in StreamIds : CbPush(id) \/ CbEvict(id) \/ CbReturn(id))
    /\ SF_vars(PlotRead)
    /\ WF_vars(PlotDone)

FairSpec == Spec /\ Fairness

----------------------------------------------------------------------------
(* The methods called directly: start_stream, stop_stream and the snapshot *)
(* read, in any order, on a session constructed by AppState::new.  The     *)
(* methods never change selected_device, so the empty list and the list of *)
(* one device stand for all lists.                                         *)

InitApi ==
    /\ devices \in {n \in DeviceCounts : n <= 1}
    /\ selected_device = 0
    /\ audio_data = <<>>
    /\ stream = {}
    /\ is_playing = FALSE
    /\ new_stream = {}
    /\ ui_pc = "api"
    /\ points = {}
    /\ lock = Unlocked
    /\ cb = [id \in StreamIds |-> IdleCb]
    /\ panic = "none"
    /\ delivered = <<>>
    /\ opened = 0
    /\ stderr = ""
    /\ handed = <<>>

ApiStartOpen == StartOpen("api", "api_assign")
ApiStartAssign == StartAssign("api_assign", "api")
ApiStopTake == StopTake("api", "api_flag")
ApiStopFlag == StopFlag("api_flag", "api")
ApiRead == ReadLock("api", "api_reading")
ApiReadDone == ReadUnlock("api_reading", "api")

NextApi ==
    \/ ApiStartOpen \/ ApiStartAssign
    \/ ApiStopTake \/ ApiStopFlag
    \/ ApiRead \/ ApiReadDone
    \/ Callback

SpecApi == InitApi /\ [][NextApi]_vars

----------------------------------------------------------------------------
(* Vocabulary of the properties *)

\* The last n elements of a sequence.
LastN(seq, n) == SubSeq(seq, Len(seq) - n + 1, Len(seq))

\* What the buffer retains of a history of appends: its last Capacity samples.
Retained(history) == LastN(history, Min(Len(history), Capacity))

AllButLast(seq) == SubSeq(seq, 1, Len(seq) - 1)

\* No callback is between a push and its eviction.
NoAppendInProgress == \A id \in StreamIds : cb[id].pc # "pushed"

\* The control thread is inside start_stream, past the build.
Starting == ui_pc \in {"switch_assign", "button_assign", "api_assign"}

\* Stopped, as a caller sees it: the flag is down and no start is under way.
Stopped == ~is_playing /\ ~Starting

SwitchPcs == {"switch", "switch_flag", "switch_start", "switch_assign"}

----------------------------------------------------------------------------
(* Properties *)

\* C1: every snapshot a reader takes has at most Capacity samples, and the
\* buffer itself is longer than Capacity only while a writer holds the lock.
C1_SnapshotWithinCapacity ==
    /\ \A p \in points : Len(p) <= Capacity
    /\ Len(audio_data) > Capacity => lock.writer # {}

\* C1 witness: a snapshot of a full buffer, taken after an eviction took place.
C1_Witness ==
    /\ Len(delivered) > Capacity
    /\ \E p \in points : Len(p) = Capacity

\* C2: the push of an append puts the new sample last and keeps everything
\* else; the eviction that completes the append removes exactly the oldest
\* sample when the buffer was full before the push, and nothing otherwise.
C2_AppendIsFifo ==
    [][\A id \in StreamIds :
          /\ (cb[id].pc = "loop" /\ cb'[id].pc = "pushed") =>
                /\ Len(audio_data') = Len(audio_data) + 1
                /\ AllButLast(audio_data') = audio_data
                /\ audio_data'[Len(audio_data')] = delivered'[Len(delivered')]
          /\ (cb[id].pc = "pushed" /\ cb'[id].pc = "loop") =>
                LET before == AllButLast(audio_data)
                    sample == audio_data[Len(audio_data)]
                IN  /\ Len(before) <= Capacity
                    /\ Len(before) = Capacity =>
                          audio_data' = Append(Tail(before), sample)
                    /\ Len(before) < Capacity =>
                          audio_data' = Append(before, sample)
      ]_vars

\* C2 witness: an append to a full buffer has just been completed.
C2_Witness ==
    \E id \in StreamIds :
        /\ cb[id].pc = "loop"
        /\ cb[id].k > 1
        /\ Len(delivered) > Capacity
        /\ Len(audio_data) = Capacity

\* C3: starting from the empty buffer, after the samples s1..sn were appended
\* the buffer, and any snapshot of it, is the last min(n, Capacity) of them
\* in append order.
C3_SnapshotIsLastSamples ==
    /\ NoAppendInProgress => audio_data = Retained(delivered)
    /\ \A p \in points : p = Retained(delivered)

\* C3 witness: a snapshot taken after more than Capacity appends.
C3_Witness ==
    /\ Len(delivered) = Capacity + 1
    /\ points = {Retained(delivered)}

\* C4: while a reader holds its snapshot no writer is inside the callback's
\* critical section, and the snapshot is the buffer as it was after some
\* whole number of complete appends: never the state between a push and its
\* eviction, never longer than Capacity.
C4_NoTornRead ==
    \A p \in points :
        /\ lock.writer = {}
        /\ \A id \in StreamIds : cb[id].pc \in {"idle", "waiting"}
        /\ p = audio_data
        /\ Len(p) <= Capacity
        /\ \E n \in 0..Len(delivered) : p = Retained(SubSeq(delivered, 1, n))

\* C4 witness: a reader holds a snapshot of a full buffer while a callback of
\* the live stream is blocked on the write lock.
C4_Witness ==
    /\ points # {}
    /\ Len(audio_data) = Capacity
    /\ \E id \in StreamIds : cb[id].pc = "waiting" /\ Len(cb[id].data) > 0

\* C5: at most one stream is live at any time; a start on an Active session
\* opens no second stream.
C5_AtMostOneStream ==
    Cardinality(stream) + Cardinality(new_stream) <= 1

\* C6: stop_stream on a Stopped session changes nothing: the session stays
\* Stopped without a stream, the selected index and the buffer are the same,
\* and the process does not panic.
C6_StopWhenStoppedIsNoOp ==
    [][(/\ stream = {} /\ ~is_playing /\ new_stream = {}
        /\ \/ (ui_pc = "api" /\ ui_pc' = "api_flag")
           \/ (ui_pc = "api_flag" /\ ui_pc' = "api"))
       => /\ stream' = {} /\ ~is_playing' /\ new_stream' = {}
          /\ selected_device' = selected_device
          /\ audio_data' = audio_data
          /\ panic' = "none"
      ]_vars

\* C6 witness: stop_stream has run to its last line on a session that was
\* Stopped and that had captured samples before.
C6_Witness ==
    /\ ui_pc = "api_flag"
    /\ ~is_playing
    /\ stream = {}
    /\ Len(delivered) > 0

\* C7: start on a session with no devices fails with an error instead of
\* indexing the empty list.
C7_EmptyListIsAnError ==
    devices = 0 => panic # "index_start"

\* C8: a device that cannot be opened, or that reports an unsupported
\* encoding, makes start return an error; the process goes on, Stopped.
C8_OpenFailureIsReturned ==
    panic \notin {"config", "build", "play", "format"}

\* C9: a change of device while Active is carried through: stop, then start
\* on the new device, ending Active with that one stream.
C9_SwitchRestartsStream ==
    /\ ui_pc \in SwitchPcs => panic = "none"
    /\ ui_pc = "switch_assign" =>
          /\ stream = {}
          /\ \E s \in new_stream : s.device = selected_device

\* What the restart does when the new device opens: no step of the control
\* thread inside the switch touches the buffer, and the switch ends Active
\* with exactly one stream, bound to the newly selected device.
SwitchEndsActiveWhenOpened ==
    [][/\ (ui_pc \in SwitchPcs /\ ui_pc' # ui_pc) => audio_data' = audio_data
       /\ (ui_pc = "switch_assign" /\ ui_pc' = "buttons") =>
             /\ is_playing'
             /\ new_stream' = {}
             /\ Cardinality(stream') = 1
             /\ \A s \in stream' : s.device = selected_device'
      ]_vars

\* C10: once stop_stream has returned no callback of the closed stream runs
\* or waits, and while the session is Stopped the buffer is not modified.
C10_NoCallbackAfterStop ==
    /\ [](Stopped => \A id \in StreamIds : cb[id].pc = "idle")
    /\ [][Stopped => audio_data' = audio_data]_vars

\* C10 witness: the Stop button has been handled after samples were captured.
C10_Witness ==
    /\ ui_pc = "plot"
    /\ ~is_playing
    /\ Len(delivered) > 0

\* C11: a stream error reported through the error callback only prints: the
\* session keeps its stream and its flag, the selected index and the buffer
\* are the same, and nothing panics.
C11_StreamErrorChangesNothing ==
    [][stderr' # stderr =>
          /\ stream' = stream
          /\ new_stream' = new_stream
          /\ is_playing' = is_playing
          /\ selected_device' = selected_device
          /\ audio_data' = audio_data
          /\ panic' = "none"
      ]_vars

\* C11 witness: an error was printed for a session that is Active, holds its
\* stream and has captured samples.
C11_Witness ==
    /\ stderr # ""
    /\ is_playing
    /\ stream # {}
    /\ Len(audio_data) > 0

\* C12: the normalizer maps every native sample into [-1.0, 1.0], so every
\* sample appended to the buffer lies in that range.
C12_SamplesAreNormalized ==
    \A i \in 1..Len(audio_data) :
        -F32One <= audio_data[i] /\ audio_data[i] <= F32One

\* C13: of a block of interleaved samples with c channels the callback
\* appends exactly one sample per frame, the one at block position 0, c,
\* 2c, ... (the frame's channel 0), in block order, and no other sample.
C13_ChannelZeroOnly ==
    [][\A id \in StreamIds :
          /\ (cb[id].pc = "loop" /\ cb'[id].pc = "pushed") =>
                LET c == StreamOf(id).channels
                    pos == (cb[id].k - 1) * c + 1
                IN  /\ pos <= Len(cb[id].data)
                    /\ Len(audio_data') = Len(audio_data) + 1
                    /\ audio_data'[Len(audio_data')] =
                          into_f32(StreamOf(id).format, cb[id].data[pos])
          /\ (cb[id].pc = "loop" /\ cb'[id].pc = "idle") =>
                LET c == StreamOf(id).channels
                    appended == cb[id].k - 1
                IN  /\ appended * c >= Len(cb[id].data)
                    /\ (appended - 1) * c < Len(cb[id].data)
      ]_vars

\* C13 witness: a two-channel block whose two samples differ; the sample of
\* channel 0 has just been pushed.
C13_Witness ==
    \E id \in StreamIds :
        /\ cb[id].pc = "pushed"
        /\ StreamOf(id).channels = 2
        /\ Len(cb[id].data) = 2
        /\ cb[id].data[1] # cb[id].data[2]
        /\ audio_data[Len(audio_data)] = into_f32(StreamOf(id).format, cb[id].data[1])

\* The pushes so far are the first deliveries, in their order, and a buffer
\* at rest holds the latest of them, oldest first.
InDeliveryOrder ==
    /\ Len(delivered) <= Len(handed)
    /\ delivered = SubSeq(handed, 1, Len(delivered))
    /\ NoAppendInProgress =>
          audio_data = SubSeq(handed, Len(delivered) - Len(audio_data) + 1, Len(delivered))

\* C14: samples are pushed, and retained in the buffer, in the order the host
\* delivered them; every push is made by the stream built last, when no other
\* stream has a sample left to push, so that after a restart the samples of
\* the new stream come after all samples of the streams before it.
C14_DeliveryOrder ==
    [][/\ InDeliveryOrder'
       /\ \A id \in StreamIds :
             (cb[id].pc = "loop" /\ cb'[id].pc = "pushed") =>
                /\ id = opened
                /\ \A other \in StreamIds \ {id} : cb[other].pc = "idle" ]_vars

\* C14 witness: after a restart the second stream has pushed a sample into a
\* full buffer that still holds a sample of the first stream.
C14_Witness ==
    /\ NoAppendInProgress
    /\ opened = 2
    /\ cb[2].pc = "loop" /\ cb[2].k = 2
    /\ Len(audio_data) = Capacity
    /\ Len(delivered) = Capacity + 1
    /\ delivered = handed

\* The control thread is between two operations: no start_stream or
\* stop_stream call is under way.
BetweenOperations == ui_pc \in {"frame", "buttons", "plot", "reading", "api", "api_reading"}

\* C15: between completed operations the flag is_playing is true exactly
\* when the session holds a stream.
C15_FlagIffStream ==
    BetweenOperations => (is_playing <=> stream # {})

\* C15 witness: a frame begins with the flag up and the second stream held,
\* after a stop (or a switch) and a successful start.
C15_Witness ==
    /\ ui_pc = "frame"
    /\ is_playing
    /\ \E s \in stream : s.id = 2
    /\ panic = "none"

\* C16: the selected index is a valid index into the device list in every
\* reachable state, the initial one included.
C16_SelectedInRange ==
    selected_device < devices

\* C17: the control thread holds the lock only inside its snapshot read,
\* never while it stops or starts a stream; every holder of the lock
\* releases it: the lock is free of readers, and free of a writer, again and
\* again; and under fair scheduling no callback stays for ever in an append
\* it was invoked for, and no snapshot read stays for ever due or under way.
C17_NoDeadlock ==
    /\ [](lock.readers > 0 => ui_pc \in {"reading", "api_reading"})
    /\ []<>(lock.readers = 0)
    /\ []<>(lock.writer = {})
    /\ []<>(\A id \in StreamIds : cb[id].pc = "idle")
    /\ []<>(ui_pc \notin {"plot", "reading"})

\* C17 witness: the second stream's callback waits for the write lock while
\* the control thread holds the read lock over a full buffer.
C17_Witness ==
    /\ cb[2].pc = "waiting"
    /\ Len(cb[2].data) > 0
    /\ lock.readers = 1
    /\ ui_pc = "reading"
    /\ Len(audio_data) = Capacity

\* C18: a change of the selected device while the session is Stopped only
\* updates the index: the frame goes on to the buttons with no stop and no
\* start, no stream is built, the flag stays down and the buffer is unchanged.
C18_SelectWhileStopped ==
    [][(Stopped /\ selected_device' # selected_device) =>
          /\ ui_pc = "frame" /\ ui_pc' = "buttons"
          /\ stream' = stream /\ new_stream' = new_stream
          /\ opened' = opened
          /\ is_playing' = is_playing
          /\ audio_data' = audio_data
          /\ panic' = "none" ]_vars

\* C18 witness: the index was changed with no stream ever built, and the
\* frame has reached the buttons.
C18_Witness ==
    /\ ui_pc = "buttons"
    /\ selected_device # 0
    /\ ~is_playing /\ stream = {}
    /\ opened = 0
    /\ panic = "none"

\* C19: the eviction that completes an append removes exactly
\* max(0, length + 1 - Capacity) elements, where length is the length of the
\* buffer before the push, and that number is 0 or 1.
C19_EvictedCount ==
    [][\A id \in StreamIds :
          (cb[id].pc = "pushed" /\ cb'[id].pc = "loop") =>
             LET length == Len(audio_data) - 1
                 evicted == Len(audio_data) - Len(audio_data')
             IN  /\ evicted = Max(0, length + 1 - Capacity)
                 /\ evicted \in {0, 1} ]_vars

\* C19 witness: the first append to a full buffer is complete and has
\* evicted one element, the oldest.
C19_Witness ==
    /\ Len(delivered) = Capacity + 1
    /\ audio_data = Tail(delivered)
    /\ \E id \in StreamIds : cb[id].pc = "loop" /\ cb[id].k > 1

====
